---- MODULE Spec2Model ----
(***************************************************************************)
(* Direct-chat relay of backend/main.py (human hand-off sessions).         *)
(*                                                                         *)
(* The store is the relational database behind SQLAlchemy (database.py:    *)
(* one Session per request, autocommit off, PostgreSQL).  Every handler is *)
(* cut at its SQL statements: a request slot p runs one handler at a time  *)
(* and pc[p] is the statement it executes next.  Rows written by a         *)
(* transaction become visible to the others only at its COMMIT; primary    *)
(* keys come from a sequence at INSERT time; an UPDATE of a row holds the  *)
(* row lock until the transaction ends; the unique index on                *)
(* direct_chats.session_id makes a second INSERT of the same value wait    *)
(* for the first transaction and fail when that one commits.               *)
(***************************************************************************)
EXTENDS Integers, Sequences, FiniteSets, TLC

\* ------------------------------------------------------------------ bounds
NProc == 2          \* requests that can be in flight together
NSession == 2       \* distinct session tokens clients send
MaxReq == 3         \* requests received in one behaviour

Procs == 1..NProc
Sessions == 1..NSession
ChatIds == 1..(NSession + 1)   \* chat ids an admin may name: one more than can exist
SeenVals == 0..MaxReq          \* every last_seen that can tell two results apart

VARIABLES
    chats,        \* committed rows of direct_chats
    messages,     \* committed rows of direct_messages
    nextChatId,   \* sequence behind direct_chats.id
    nextMsgId,    \* sequence behind direct_messages.id
    clock,        \* logical time: one tick per request received
    pc,           \* pc[p]: next statement of the handler in slot p
    req,          \* req[p]: the handler's inputs and locals
    lastResp,     \* the HTTP response sent last, with the request it answers
    wm,           \* wm[s]: watermark of the polling client of session s
    recv,         \* recv[s]: message ids that client has been handed
    posted,       \* posted[s]: postUserMessage calls begun for session s
    seen,         \* session tokens received so far: 1..seen
    student_bot,      \* the row of chatbots with type STUDENT exists
    documents,        \* committed rows of documents
    document_chunks,  \* committed rows of document_chunks
    conversations,    \* committed rows of conversations
    files,            \* paths that exist in the upload directory
    ingest,           \* the background task process_pdf: position and locals
    query,            \* the request to /chat/student: position and locals
    chatResp,         \* the HTTP response of /chat/student
    removal           \* the request delete_document: position and locals

vars ==
    <<chats, messages, nextChatId, nextMsgId, clock, pc, req, lastResp, wm, recv, posted, seen,
      student_bot, documents, document_chunks, conversations, files, ingest, query, chatResp,
      removal>>

\* the direct-chat relay's part of the state
relayVars ==
    <<chats, messages, nextChatId, nextMsgId, clock, pc, req, lastResp, wm, recv, posted, seen>>

\* the knowledge base's part: ingestion and question answering
ragVars ==
    <<student_bot, documents, document_chunks, conversations, files, ingest, query, chatResp,
      removal>>

\* ------------------------------------------------------------ rows, locals
NoReq ==
    [op |-> "none", sid |-> 0, cid |-> 0, ts |-> 0, loaded |-> "none",
     created |-> FALSE, msgid |-> 0, la |-> 0, last_seen |-> 0, track |-> FALSE,
     reason |-> "none"]

\* a response: the request it answers (r), the HTTP status and the JSON body
Response(r, code, msgs, st) ==
    [op |-> r.op, sid |-> r.sid, cid |-> r.cid, last_seen |-> r.last_seen,
     status |-> code, new_messages |-> msgs, chat_status |-> st]

Reply(r, code) == Response(r, code, <<>>, "none")

NoResp == Reply(NoReq, 0)

\* DirectChat(session_id, status): one row of direct_chats
DirectChat(id, sid, status, t) ==
    [id |-> id, session_id |-> sid, status |-> status, last_activity |-> t]

\* DirectMessage(chat_id, sender_type, message): one row of direct_messages;
\* sent_at is server_default now(), the start time of the inserting transaction
DirectMessage(id, cid, sender, text, t) ==
    [id |-> id, chat_id |-> cid, sender_type |-> sender, message |-> text, sent_at |-> t]

\* the text close_chat_session stores: a fixed sentence, whatever the reason
CloseNotice == "User has left the conversation"

\* request.get("reason", "user_left"): the reasons a caller supplies
Reasons == {"user_left", "inactivity"}

\* the message of the system row, as the parts of its f-string: the literal
\* and the values interpolated into it, of which there are none
CloseMessage(reason) == <<CloseNotice>>

Max(S) == CHOOSE x \in S : \A y \in S : y <= x

\* ------------------------------------------------------------ store reads
ChatsBySessionNone(s) == {}

\* db.query(DirectChat).filter(DirectChat.session_id == s)
ChatsBySession(s) == {c \in chats : c.session_id = s}

\* db.query(DirectChat).filter(DirectChat.id == id)
ChatsById(id) == {c \in chats : c.id = id}

\* .first(): a row of the result or None
First(S) == CHOOSE c \in S : \A d \in S : c.id <= d.id

\* unique=True on DirectChat.session_id
SessionIdNotUnique == FALSE

SessionIdUnique == TRUE

\* slot q has INSERTed a chat for session s and not yet committed
PendingInsert(q, s) ==
    /\ req[q].created
    /\ req[q].sid = s
    /\ pc[q] \in {"flush", "commit"}

\* slot q has UPDATEd chat c (status / last_activity) and not yet committed
HoldsRowLock(q, c) ==
    /\ pc[q] = "commit"
    /\ req[q].op \in {"user", "admin", "close"}
    /\ req[q].cid = c

RowLockIgnored(p, c) == TRUE

\* the UPDATE of the chat row that every message append flushes before its
\* INSERT waits while another transaction holds that row
RowLockFree(p, c) == \A q \in Procs \ {p} : ~HoldsRowLock(q, c)

\* ORDER BY sent_at ASC
RECURSIVE SortBySentAt(_)
SortBySentAt(S) ==
    IF S = {} THEN <<>>
    ELSE LET m == CHOOSE x \in S : \A y \in S : x.sent_at <= y.sent_at
         IN  <<m>> \o SortBySentAt(S \ {m})

AfterOrAt(id, last_seen) == id >= last_seen

\* DirectMessage.id > last_seen
After(id, last_seen) == id > last_seen

\* the message query of get_user_messages
GetMessages(cid, last_seen) ==
    SortBySentAt({m \in messages : m.chat_id = cid /\ After(m.id, last_seen)})

\* the JSON of one message
MessageJson(m) ==
    [id |-> m.id, sender_type |-> m.sender_type, message |-> m.message, sent_at |-> m.sent_at]

NewMessages(cid, last_seen) ==
    LET ms == GetMessages(cid, last_seen)
    IN  [i \in 1..Len(ms) |-> MessageJson(ms[i])]

\* what pollNewMessages(s, last_seen) answers on the committed rows
PollResult(s, last_seen) ==
    IF ChatsBySession(s) = {} THEN <<>>
    ELSE NewMessages(First(ChatsBySession(s)).id, last_seen)

Ids(sq) == {sq[i].id : i \in 1..Len(sq)}

\* ------------------------------------------------------------------- Init
\* no upload and no question yet; database.py's setup created the student bot
NoIngest ==
    [pc |-> "idle", pdf |-> [readable |-> FALSE, items |-> <<>>], file_path |-> "none",
     doc_id |-> 0, chunks |-> <<>>, session_broken |-> FALSE, result |-> "none",
     rag |-> "none"]

NoResult == [answer |-> <<>>, sources |-> <<>>, response_time_ms |-> 0,
             session_id |-> "none", error |-> FALSE]

NoQuery ==
    [pc |-> "idle", rag |-> "none", message |-> <<>>, request_sid |-> "none",
     session_id |-> "none", relevant_chunks |-> <<>>, answer |-> <<>>, sources |-> <<>>,
     response_time |-> 0, result |-> NoResult, retriever_calls |-> 0, llm_calls |-> 0,
     search_failed |-> FALSE, llm_raised |-> FALSE, log_failed |-> FALSE,
     raised |-> FALSE]

NoRemoval ==
    [pc |-> "idle", document_id |-> 0, deleted_chunks |-> {}, result |-> "none"]

NoChatResp ==
    [status |-> 0, answer |-> <<>>, sources |-> <<>>, response_time_ms |-> 0,
     session_id |-> "none"]

RagInit ==
    /\ student_bot = TRUE
    /\ documents = {}
    /\ document_chunks = {}
    /\ conversations = {}
    /\ files = {}
    /\ ingest = NoIngest
    /\ query = NoQuery
    /\ chatResp = NoChatResp
    /\ removal = NoRemoval

RelayInit ==
    /\ chats = {}
    /\ messages = {}
    /\ nextChatId = 1
    /\ nextMsgId = 1
    /\ clock = 0
    /\ pc = [p \in Procs |-> "idle"]
    /\ req = [p \in Procs |-> NoReq]
    /\ lastResp = NoResp
    /\ wm = [s \in Sessions |-> 0]
    /\ recv = [s \in Sessions |-> {}]
    /\ posted = [s \in Sessions |-> 0]
    /\ seen = 0

Init == RelayInit /\ RagInit

\* a request arrives and takes the first free slot
CanBegin(p) ==
    /\ clock < MaxReq
    /\ pc[p] = "idle"
    /\ \A q \in Procs : q < p => pc[q] # "idle"

\* the first statement of a handler starts its transaction: now() is that
\* time for every row the transaction inserts

\* Session tokens are opaque strings the client draws at random: the first
\* token a behaviour mentions is called 1, the next new one 2, and so on.
Begin(p, r, next) ==
    /\ r.sid <= seen + 1
    /\ seen' = Max({seen, r.sid})
    /\ clock' = clock + 1
    /\ req' = [req EXCEPT ![p] = [r EXCEPT !.ts = clock + 1, !.la = clock + 1]]
    /\ pc' = [pc EXCEPT ![p] = next]
    /\ UNCHANGED lastResp

\* the handler returns: the slot is free again
Finish(p, answer) ==
    /\ pc' = [pc EXCEPT ![p] = "idle"]
    /\ req' = [req EXCEPT ![p] = NoReq]
    /\ lastResp' = answer

\* a handler that returns after its first statement
BeginEnd(p, r, code) ==
    /\ r.sid <= seen + 1
    /\ seen' = Max({seen, r.sid})
    /\ clock' = clock + 1
    /\ lastResp' = Reply(r, code)
    /\ UNCHANGED <<pc, req, ragVars>>

\* ------------------------------------------------- statements shared by handlers
\* INSERT INTO direct_chats (db.flush() in send_user_message, the flush of
\* db.commit() in create_direct_chat).  The unique index makes the statement
\* wait for an uncommitted row of the same session_id and raise IntegrityError
\* for a committed one; both handlers answer that with 500.
InsertChat(p) ==
    /\ pc[p] = "insert_chat"
    /\ ~(SessionIdUnique /\ \E q \in Procs \ {p} : PendingInsert(q, req[p].sid))
    /\ IF SessionIdUnique /\ ChatsBySession(req[p].sid) # {}
       THEN /\ Finish(p, Reply(req[p], 500))
            /\ UNCHANGED nextChatId
       ELSE /\ req' = [req EXCEPT ![p].cid = nextChatId, ![p].created = TRUE,
                                   ![p].la = clock]
            /\ nextChatId' = nextChatId + 1
            /\ pc' = [pc EXCEPT ![p] = IF req[p].op = "create" THEN "commit" ELSE "flush"]
            /\ UNCHANGED lastResp
    /\ UNCHANGED <<chats, messages, nextMsgId, clock, wm, recv, posted, seen, ragVars>>

\* the flush inside db.commit() of a message append: UPDATE direct_chats (the
\* handler assigned last_activity = datetime.utcnow()), then INSERT INTO
\* direct_messages, which draws the message id
FlushMessage(p) ==
    /\ pc[p] = "flush"
    /\ req[p].created \/ RowLockFree(p, req[p].cid)
    /\ req' = [req EXCEPT ![p].msgid = nextMsgId]
    /\ nextMsgId' = nextMsgId + 1
    /\ pc' = [pc EXCEPT ![p] = "commit"]
    /\ UNCHANGED <<chats, messages, nextChatId, clock, lastResp, wm, recv, posted, seen, ragVars>>

\* the chat rows after the UPDATE: last_activity always, status only when the
\* handler assigned a value other than the one it loaded
UpdateChat(cid, loaded, assigned, t) ==
    {IF c.id = cid
        THEN [c EXCEPT !.status = IF assigned = loaded THEN @ ELSE assigned,
                       !.last_activity = t]
        ELSE c : c \in chats}

StatusOf(rows, cid) ==
    IF \E c \in rows : c.id = cid
    THEN (CHOOSE c \in rows : c.id = cid).status
    ELSE "none"

\* ------------------------------------------------------ send_user_message
\* chat = db.query(DirectChat).filter(session_id == request.session_id).first()
UserBegin(p, s) ==
    /\ CanBegin(p)
    /\ IF ChatsBySession(s) = {}
       THEN Begin(p, [NoReq EXCEPT !.op = "user", !.sid = s], "insert_chat")
       ELSE LET chat == First(ChatsBySession(s))
            IN  Begin(p, [NoReq EXCEPT !.op = "user", !.sid = s, !.cid = chat.id,
                                       !.loaded = chat.status], "flush")
    /\ posted' = [posted EXCEPT ![s] = @ + 1]
    /\ UNCHANGED <<chats, messages, nextChatId, nextMsgId, wm, recv, ragVars>>

UserFlush(p) == req[p].op = "user" /\ FlushMessage(p)

UserReopens(loaded) == "waiting"

\* the handler assigns chat.last_activity and nothing else of an existing chat
UserStatus(loaded) == loaded

\* COMMIT, then the response reads chat.status back
UserCommit(p) ==
    /\ pc[p] = "commit"
    /\ req[p].op = "user"
    /\ chats' = IF req[p].created
                THEN chats \cup {DirectChat(req[p].cid, req[p].sid, "waiting", req[p].la)}
                ELSE UpdateChat(req[p].cid, req[p].loaded, UserStatus(req[p].loaded),
                                req[p].la)
    /\ messages' = messages \cup
           {DirectMessage(req[p].msgid, req[p].cid, "user", req[p].ts, req[p].ts)}
    /\ Finish(p, Response(req[p], 200, <<>>, StatusOf(chats', req[p].cid)))
    /\ UNCHANGED <<nextChatId, nextMsgId, clock, wm, recv, posted, seen, ragVars>>

\* ----------------------------------------------------- send_admin_message
NotFoundSwallowed == 500

\* raise HTTPException(status_code=404), passed on by "except HTTPException: raise"
NotFound == 404

\* chat = db.query(DirectChat).filter(DirectChat.id == chat_id).first()
AdminBegin(p, id) ==
    /\ CanBegin(p)
    /\ IF ChatsById(id) = {}
       THEN BeginEnd(p, [NoReq EXCEPT !.op = "admin", !.cid = id], NotFound)
       ELSE LET chat == First(ChatsById(id))
            IN  Begin(p, [NoReq EXCEPT !.op = "admin", !.sid = chat.session_id,
                                       !.cid = id, !.loaded = chat.status], "flush")
    /\ UNCHANGED <<chats, messages, nextChatId, nextMsgId, wm, recv, posted, ragVars>>

AdminFlush(p) == req[p].op = "admin" /\ FlushMessage(p)

AdminKeepsStatus(loaded) == loaded

\* chat.status = 'active'
AdminStatus(loaded) == "active"

AdminCommit(p) ==
    /\ pc[p] = "commit"
    /\ req[p].op = "admin"
    /\ chats' = UpdateChat(req[p].cid, req[p].loaded, AdminStatus(req[p].loaded), req[p].la)
    /\ messages' = messages \cup
           {DirectMessage(req[p].msgid, req[p].cid, "admin", req[p].ts, req[p].ts)}
    /\ Finish(p, Reply(req[p], 200))
    /\ UNCHANGED <<nextChatId, nextMsgId, clock, wm, recv, posted, seen, ragVars>>

\* ----------------------------------------------------- close_chat_session
CloseBegin(p, s, reason) ==
    /\ CanBegin(p)
    /\ IF ChatsBySession(s) = {}
       THEN BeginEnd(p, [NoReq EXCEPT !.op = "close", !.sid = s], 200)
       ELSE LET chat == First(ChatsBySession(s))
            IN  Begin(p, [NoReq EXCEPT !.op = "close", !.sid = s, !.cid = chat.id,
                                       !.loaded = chat.status, !.reason = reason],
                      "flush")
    /\ UNCHANGED <<chats, messages, nextChatId, nextMsgId, wm, recv, posted, ragVars>>

CloseFlush(p) == req[p].op = "close" /\ FlushMessage(p)

CloseCommit(p) ==
    /\ pc[p] = "commit"
    /\ req[p].op = "close"
    /\ chats' = UpdateChat(req[p].cid, req[p].loaded, "closed", req[p].la)
    /\ messages' = messages \cup
           {DirectMessage(req[p].msgid, req[p].cid, "system", CloseMessage(req[p].reason),
                          req[p].ts)}
    /\ Finish(p, Reply(req[p], 200))
    /\ UNCHANGED <<nextChatId, nextMsgId, clock, wm, recv, posted, seen, ragVars>>

\* ----------------------------------------------------- create_direct_chat
CreateBegin(p, s) ==
    /\ CanBegin(p)
    /\ Begin(p, [NoReq EXCEPT !.op = "create", !.sid = s], "insert_chat")
    /\ UNCHANGED <<chats, messages, nextChatId, nextMsgId, wm, recv, posted, ragVars>>

CreateCommit(p) ==
    /\ pc[p] = "commit"
    /\ req[p].op = "create"
    /\ chats' = chats \cup {DirectChat(req[p].cid, req[p].sid, "waiting", req[p].ts)}
    /\ Finish(p, Response(req[p], 200, <<>>, "waiting"))
    /\ UNCHANGED <<messages, nextChatId, nextMsgId, clock, wm, recv, posted, seen, ragVars>>

\* ------------------------------------------------------ get_user_messages
\* last_seen values callers send: 0 (the widget's value before it has seen
\* anything) and the watermark of the session's polling client
PollVals(s) == {0, wm[s]}

\* a poll that sends the client's watermark is that client's (track)
PollBegin(p, s, w) ==
    /\ CanBegin(p)
    /\ IF ChatsBySession(s) = {}
       THEN BeginEnd(p, [NoReq EXCEPT !.op = "poll", !.sid = s, !.last_seen = w,
                                      !.track = (w = wm[s])], 200)
       ELSE Begin(p, [NoReq EXCEPT !.op = "poll", !.sid = s, !.last_seen = w,
                                   !.track = (w = wm[s]),
                                   !.cid = First(ChatsBySession(s)).id], "poll_query")
    /\ UNCHANGED <<chats, messages, nextChatId, nextMsgId, wm, recv, posted, ragVars>>

PollQueryTouching(p) ==
    /\ pc[p] = "poll_query"
    /\ LET out == NewMessages(req[p].cid, req[p].last_seen)
           s == req[p].sid
       IN  /\ Finish(p, Response(req[p], 200, out, "none"))
           /\ IF req[p].track
              THEN /\ recv' = [recv EXCEPT ![s] = @ \cup Ids(out)]
                   /\ wm' = [wm EXCEPT ![s] = Max({@} \cup Ids(out))]
              ELSE UNCHANGED <<wm, recv>>
    /\ chats' = UpdateChat(req[p].cid, "none", "none", clock)
    /\ UNCHANGED <<messages, nextChatId, nextMsgId, clock, posted, seen, ragVars>>

\* the message query and the response; the client keeps what it is handed and
\* raises its watermark to the largest id it has seen
PollQuery(p) ==
    /\ pc[p] = "poll_query"
    /\ LET out == NewMessages(req[p].cid, req[p].last_seen)
           s == req[p].sid
       IN  /\ Finish(p, Response(req[p], 200, out, "none"))
           /\ IF req[p].track
              THEN /\ recv' = [recv EXCEPT ![s] = @ \cup Ids(out)]
                   /\ wm' = [wm EXCEPT ![s] = Max({@} \cup Ids(out))]
              ELSE UNCHANGED <<wm, recv>>
    /\ UNCHANGED <<chats, messages, nextChatId, nextMsgId, clock, posted, seen, ragVars>>

\* ------------------------------------------------------------------- Next
\* the four relay operations: postUserMessage, postAdminMessage,
\* pollNewMessages, closeSession
RelayStep(p) ==
    \/ \E s \in Sessions : UserBegin(p, s)
    \/ InsertChat(p)
    \/ UserFlush(p)
    \/ UserCommit(p)
    \/ \E id \in ChatIds : AdminBegin(p, id)
    \/ AdminFlush(p)
    \/ AdminCommit(p)
    \/ \E s \in Sessions : \E reason \in Reasons : CloseBegin(p, s, reason)
    \/ CloseFlush(p)
    \/ CloseCommit(p)
    \/ \E s \in Sessions : \E w \in PollVals(s) : PollBegin(p, s, w)
    \/ PollQuery(p)

\* with the admin's explicit creation of a chat
Step(p) ==
    \/ RelayStep(p)
    \/ \E s \in Sessions : CreateBegin(p, s)
    \/ CreateCommit(p)

Next == \E p \in Procs : Step(p)

Spec == Init /\ [][Next]_vars

\* user and admin traffic without explicit creation
NextRelay == \E p \in Procs : RelayStep(p)

SpecRelay == Init /\ [][NextRelay]_vars

\* the same handlers called one after the other: a single request slot
NextSeq == Step(1)

SpecSeq == Init /\ [][NextSeq]_vars

\* ------------------------------------------------------ delete_direct_chat
\* the response of delete_direct_chat: 200 when a chat row was deleted;
\* otherwise raise HTTPException(status_code=404) inside the try block, which
\* "except Exception" catches and answers with 500
DeleteStatus(deleted) == IF deleted THEN 200 ELSE 500

\* DELETE FROM direct_messages WHERE chat_id = :id; DELETE FROM direct_chats
\* WHERE id = :id; COMMIT; the response.  No other request is in flight.
DeleteChat(p, id) ==
    /\ CanBegin(p)
    /\ \A q \in Procs : pc[q] = "idle"
    /\ messages' = {m \in messages : m.chat_id # id}
    /\ chats' = chats \ ChatsById(id)
    /\ clock' = clock + 1
    /\ lastResp' = Reply([NoReq EXCEPT !.op = "delete", !.cid = id],
                         DeleteStatus(ChatsById(id) # {}))
    /\ UNCHANGED <<nextChatId, nextMsgId, pc, req, wm, recv, posted, seen, ragVars>>

\* the handlers called one after the other, with the admin's deletion
NextSeqDelete == Step(1) \/ \E id \in ChatIds : DeleteChat(1, id)

SpecSeqDelete == Init /\ [][NextSeqDelete]_vars

\* the relay with one chat already open: an admin created it for session 1
\* (create_direct_chat) before the behaviour starts
InitOpen ==
    /\ RagInit
    /\ chats = {DirectChat(1, 1, "waiting", 0)}
    /\ messages = {}
    /\ nextChatId = 2
    /\ nextMsgId = 1
    /\ clock = 0
    /\ pc = [p \in Procs |-> "idle"]
    /\ req = [p \in Procs |-> NoReq]
    /\ lastResp = NoResp
    /\ wm = [s \in Sessions |-> 0]
    /\ recv = [s \in Sessions |-> {}]
    /\ posted = [s \in Sessions |-> 0]
    /\ seen = 1

SpecOpen == InitOpen /\ [][Next]_vars

\* ================================================================ texts
\* A string is the sequence of its words; a text of several lines is the
\* sequence of its lines.  Words come from a small vocabulary chosen so that
\* every branch of the matching below is taken: a word with an upper-case
\* letter, words of each phrase list, a word that contains a phrase inside
\* it ("which" contains "hi") and words no phrase list mentions.
MaxWords == 3       \* words in a question

Words == {"Hi", "thanks", "bye", "who", "are", "you", "which", "enroll"}

Strings(S, n) == UNION {[1..k -> S] : k \in 0..n}

\* the messages a client sends
Questions == Strings(Words, MaxWords)

\* str.lower()
LowerWord(w) == IF w = "Hi" THEN "hi" ELSE w

Lower(t) == [i \in DOMAIN t |-> LowerWord(t[i])]

\* a in b, a.endswith / a.startswith for two lower-case words: the pairs of
\* the vocabulary and the phrase lists for which it holds
Within(a, b) == a = b \/ <<a, b>> \in {<<"hi", "which">>, <<"thank", "thanks">>}

EndsWith(b, a) == a = b

StartsWith(b, a) == a = b \/ <<a, b>> \in {<<"thank", "thanks">>}

\* phrase in t: the phrase occurs in the string as a substring.  A phrase of
\* one word may lie inside a word; a phrase of several words ends the word
\* it starts in and starts the word it ends in.
Contains(phrase, t) ==
    LET n == Len(phrase)
    IN  \E i \in 1..(Len(t) - n + 1) :
            IF n = 1 THEN Within(phrase[1], t[i])
            ELSE /\ EndsWith(t[i], phrase[1])
                 /\ StartsWith(t[i + n - 1], phrase[n])
                 /\ \A j \in 2..(n - 1) : t[i + j - 1] = phrase[j]

\* any(phrase in t for phrase in phrases)
AnyIn(phrases, t) == \E phrase \in phrases : Contains(phrase, t)

\* A line is known by what the chunker asks of it: whether it is blank,
\* whether it starts with "--- Page " and which number int() reads in it,
\* if any, how many characters it has, and its words.
\* a line of running text with these words
TextLine(words) == [kind |-> "text", len |-> 300, words |-> words, page |-> 0]

\* an empty line, or one of white space
BlankLine == [kind |-> "blank", len |-> 0, words |-> <<>>, page |-> 0]

\* the line "--- Page n ---"
MarkerLine(n) == [kind |-> "marker", len |-> 14, words |-> <<>>, page |-> n]

\* a line that starts with "--- Page " and carries no number
BadMarkerLine == [kind |-> "badmarker", len |-> 14, words |-> <<>>, page |-> 0]

\* a text of lines: the words of all its lines
RECURSIVE TextWords(_)
TextWords(lines) ==
    IF lines = <<>> THEN <<>> ELSE Head(lines).words \o TextWords(Tail(lines))

Range(sq) == {sq[i] : i \in DOMAIN sq}

RECURSIVE Perms(_)
Perms(S) ==
    IF S = {} THEN {<<>>} ELSE UNION {{<<x>> \o p : p \in Perms(S \ {x})} : x \in S}

\* ================================================= query_student_bot
\* the phrase lists of query_student_bot
greetings ==
    {<<"hello">>, <<"hi">>, <<"hey">>, <<"good", "morning">>, <<"good", "afternoon">>,
     <<"good", "evening">>, <<"howdy">>}

thanks_words == {<<"thank">>, <<"thanks">>, <<"appreciate">>, <<"grateful">>}

goodbye_words ==
    {<<"bye">>, <<"goodbye">>, <<"see", "you">>, <<"farewell">>, <<"take", "care">>}

status_questions ==
    {<<"how", "are", "you">>, <<"how", "do", "you", "do">>, <<"what", "are", "you">>,
     <<"who", "are", "you">>}

\* the fixed answers, each a text of one piece
GreetingText == <<"Hello! I'm here to help you with your academic questions.">>

ThanksText == <<"You're very welcome! I'm glad I could help.">>

FarewellText == <<"Goodbye! Have a great day with your studies.">>

IdentityText == <<"I'm your PUPQC student support assistant!">>

StillLearningText == <<"I'm still learning about that topic!">>

TroubleText == <<"I'm having trouble processing that right now - let me try again!">>

UnavailableText == <<"I'm sorry, the knowledge base is temporarily unavailable.">>

SorryText == <<"I'm sorry, I'm having trouble processing your question right now.">>

\* "response_time_ms": 50 of the conversational answers
SmallTalkMs == 50

Result(answer, sources, ms, sid, error) ==
    [answer |-> answer, sources |-> sources, response_time_ms |-> ms,
     session_id |-> sid, error |-> error]

ClassifyThanksFirst(question) ==
    LET question_lower == Lower(question)
    IN  IF AnyIn(thanks_words, question_lower) THEN "thanks"
        ELSE IF AnyIn(greetings, question_lower) THEN "greeting"
        ELSE IF AnyIn(goodbye_words, question_lower) THEN "farewell"
        ELSE IF AnyIn(status_questions, question_lower) THEN "identity"
        ELSE "academic"

\* the chain of if any(...) tests: the first list that matches decides
Classify(question) ==
    LET question_lower == Lower(question)
    IN  IF AnyIn(greetings, question_lower) THEN "greeting"
        ELSE IF AnyIn(thanks_words, question_lower) THEN "thanks"
        ELSE IF AnyIn(goodbye_words, question_lower) THEN "farewell"
        ELSE IF AnyIn(status_questions, question_lower) THEN "identity"
        ELSE "academic"

SmallTalkAnswer(category) ==
    CASE category = "greeting" -> GreetingText
      [] category = "thanks" -> ThanksText
      [] category = "farewell" -> FarewellText
      [] category = "identity" -> IdentityText

\* ------------------------------------------------------ _search_documents
\* rows of documents and document_chunks
Document(id, name, status, chunk_count) ==
    [id |-> id, original_filename |-> name, status |-> status, chunk_count |-> chunk_count]

DocumentChunk(document_id, chunk_index, text, page) ==
    [document_id |-> document_id, chunk_index |-> chunk_index, text_content |-> text,
     page_number |-> page]

\* limit: int = 5
limit == 5

DocumentOf(chunk) == CHOOSE d \in documents : d.id = chunk.document_id

\* the rows of document_chunks that refer to a document
ChunksOf(doc_id) == {c \in document_chunks : c.document_id = doc_id}

ChunksOfAnyStatus ==
    {c \in document_chunks : \E d \in documents : d.id = c.document_id}

\* the join of document_chunks with documents filtered by status READY
ReadyChunks ==
    {c \in document_chunks : \E d \in documents : d.id = c.document_id /\ d.status = "ready"}

\* sum(1 for term in search_terms if term in text_lower)
Score(search_terms, chunk) ==
    LET text_lower == Lower(TextWords(chunk.text_content))
    IN  Cardinality({i \in DOMAIN search_terms :
                        \E j \in DOMAIN text_lower : Within(search_terms[i], text_lower[j])})

Scored(question, chunk) ==
    [score |-> Score(Lower(question), chunk), text |-> chunk.text_content,
     page |-> chunk.page_number, document_id |-> chunk.document_id,
     filename |-> DocumentOf(chunk).original_filename]

SortKeepsOrder(sq) == sq

\* list.sort(key=score, reverse=True): stable, largest score first
RECURSIVE SortByScore(_)
SortByScore(sq) ==
    IF sq = <<>> THEN <<>>
    ELSE LET i == CHOOSE k \in DOMAIN sq :
                      /\ \A j \in DOMAIN sq : sq[j].score <= sq[k].score
                      /\ \A j \in 1..(k - 1) : sq[j].score < sq[k].score
         IN  <<sq[i]>> \o SortByScore(SubSeq(sq, 1, i - 1) \o SubSeq(sq, i + 1, Len(sq)))

Take(sq, n) == SubSeq(sq, 1, IF Len(sq) < n THEN Len(sq) ELSE n)

SearchKeepsZero(question, rows) ==
    Take(SortByScore([i \in DOMAIN rows |-> Scored(question, rows[i])]), limit)

\* the search on the rows in the order the store returned them
search_documents(question, rows) ==
    LET scored == [i \in DOMAIN rows |-> Scored(question, rows[i])]
        scored_chunks == SelectSeq(scored, LAMBDA x : x.score > 0)
    IN  Take(SortByScore(scored_chunks), limit)

\* ------------------------------------------------------------ generation
\* what self.model.generate_content(prompt) does: it raises, or answers a
\* text that may carry the references and asterisks the prompt forbids
LlmTexts ==
    {<<"enroll", "now">>, <<"*", "see", "page", "3", "handbook.pdf">>,
     <<"see", "document", "document", "2", "3">>}

LlmOutcomes ==
    {[raises |-> TRUE, text |-> <<>>]} \cup {[raises |-> FALSE, text |-> t] : t \in LlmTexts}

\* the milliseconds measured between start_time and the end of generation
Elapsed == {7, 1200}

\* the words \d+ matches
NumberWords == {"2", "3"}

\* re.sub(keyword\s+\d+..., '', answer): one scan from the left that cuts out
\* every keyword with the number after it and goes on behind the match
RECURSIVE CutReferences(_, _)
CutReferences(keywords, answer) ==
    IF Len(answer) < 2 THEN answer
    ELSE IF answer[1] \in keywords /\ answer[2] \in NumberWords
         THEN CutReferences(keywords, Tail(Tail(answer)))
         ELSE <<answer[1]>> \o CutReferences(keywords, Tail(answer))

\* _clean_response: the substitutions in their order: page references, page
\* and pages references, document references, section references, asterisks
\* to bullets; the white space left behind shrinks to the one between words
clean_response(answer) ==
    LET no_page == CutReferences({"page"}, answer)
        no_pages == CutReferences({"page", "pages"}, no_page)
        no_document == CutReferences({"document"}, no_pages)
        no_section == CutReferences({"section"}, no_document)
    IN  [i \in DOMAIN no_section |->
            IF no_section[i] = "*" THEN "(bullet)" ELSE no_section[i]]

\* clean_bot_response of main.py: ".pdf" is cut off file names, "according to
\* the document" is cut out, asterisks become bullets
clean_bot_response(response_text) ==
    LET kept == SelectSeq(response_text, LAMBDA w : w # "according to the document")
    IN  [i \in DOMAIN kept |->
            CASE kept[i] = "*" -> "(bullet)"
              [] kept[i] = "handbook.pdf" -> "handbook"
              [] OTHER -> kept[i]]

\* the sources list built from relevant_chunks
Sources(relevant_chunks) ==
    [i \in DOMAIN relevant_chunks |->
        [page |-> relevant_chunks[i].page, filename |-> relevant_chunks[i].filename,
         chunk_id |-> relevant_chunks[i].document_id]]

\* str(x): the printed form of a list
Str(x) == [repr |-> x]

\* settings.analytics_enabled
analytics_enabled == TRUE

\* one row of conversations
Conversation(sid, question, answer, ms, sources) ==
    [session_id |-> IF sid = "none" THEN "anonymous" ELSE sid, user_message |-> question,
     bot_response |-> answer, response_time_ms |-> ms, sources_used |-> Str(sources)]

\* ChatResponse(answer, sources, response_time_ms, session_id), sent with 200
ChatResponse(answer, sources, ms, sid) ==
    [status |-> 200, answer |-> answer, sources |-> sources, response_time_ms |-> ms,
     session_id |-> sid]

\* ================================================= _create_text_chunks
\* settings.chunk_size
chunk_size == 500

\* str.strip() of a text of lines: blank lines at both ends go
RECURSIVE StripLeft(_)
StripLeft(lines) ==
    IF lines # <<>> /\ Head(lines).kind = "blank" THEN StripLeft(Tail(lines)) ELSE lines

RECURSIVE StripRight(_)
StripRight(lines) ==
    IF lines # <<>> /\ lines[Len(lines)].kind = "blank"
    THEN StripRight(SubSeq(lines, 1, Len(lines) - 1))
    ELSE lines

Strip(lines) == StripRight(StripLeft(lines))

\* len() of the lines joined, each followed by its newline
RECURSIVE Length(_)
Length(lines) == IF lines = <<>> THEN 0 ELSE Head(lines).len + 1 + Length(Tail(lines))

\* the state of the chunker's loop
ChunkerStart == [chunks |-> <<>>, current_chunk |-> <<>>, current_page |-> 1]

Chunk(text, page) == [text |-> text, page |-> page]

\* one pass of the loop body over a line
ChunkLine(st, line) ==
    IF line.kind \in {"marker", "badmarker"}
    THEN LET flushed == IF Strip(st.current_chunk) # <<>>
                        THEN [st EXCEPT !.chunks = Append(@, Chunk(Strip(st.current_chunk),
                                                                   st.current_page)),
                                        !.current_chunk = <<>>]
                        ELSE st
         IN  [flushed EXCEPT !.current_page = IF line.kind = "marker" THEN line.page ELSE @ + 1]
    ELSE LET cur == Append(st.current_chunk, line)
         IN  IF Length(cur) > chunk_size
             THEN [st EXCEPT !.chunks = Append(@, Chunk(Strip(cur), st.current_page)),
                             !.current_chunk = <<>>]
             ELSE [st EXCEPT !.current_chunk = cur]

RECURSIVE ChunkLoop(_, _)
ChunkLoop(st, lines) ==
    IF lines = <<>> THEN st ELSE ChunkLoop(ChunkLine(st, Head(lines)), Tail(lines))

\* _create_text_chunks(text_content, filename): the loop, then the last chunk
create_text_chunks(text_content) ==
    LET st == ChunkLoop(ChunkerStart, text_content)
    IN  IF Strip(st.current_chunk) # <<>>
        THEN Append(st.chunks, Chunk(Strip(st.current_chunk), st.current_page))
        ELSE st.chunks

\* ============================================================ process_pdf
MaxLines == 3       \* lines and page breaks in an uploaded file

\* the end of a page in the uploaded file
PageBreak == [kind |-> "break", len |-> 0, words |-> <<>>, page |-> 0]

\* what pypdf reads in a file: lines of text, blank lines, lines that look
\* like the page markers process_pdf writes, and page breaks
PdfItems ==
    {TextLine(<<"enroll">>), BlankLine, MarkerLine(7), MarkerLine(0), BadMarkerLine, PageBreak}

\* the uploaded files: unreadable ones, on which PdfReader raises, and
\* readable ones
Pdfs ==
    {[readable |-> FALSE, items |-> <<>>]} \cup
    {[readable |-> TRUE, items |-> x] : x \in Strings(PdfItems, MaxLines)}

\* pdf_reader.pages, each as the lines page.extract_text() returns
RECURSIVE Pages(_)
Pages(items) ==
    IF \A i \in DOMAIN items : items[i] # PageBreak THEN <<items>>
    ELSE LET k == CHOOSE i \in DOMAIN items :
                      items[i] = PageBreak /\ \A j \in 1..(i - 1) : items[j] # PageBreak
         IN  <<SubSeq(items, 1, k - 1)>> \o Pages(SubSeq(items, k + 1, Len(items)))

\* page_text.strip() is not empty
HasText(page_text) == \E i \in DOMAIN page_text : page_text[i].kind # "blank"

\* text_content += f"\n--- Page {page_num + 1} ---\n{page_text}\n" for the pages
\* from page_num on, as the lines text_content.split('\n') gives without the
\* last, empty one
RECURSIVE PageBlocks(_, _)
PageBlocks(pages, page_num) ==
    IF page_num > Len(pages) THEN <<>>
    ELSE (IF HasText(pages[page_num])
          THEN <<BlankLine, MarkerLine(page_num)>> \o pages[page_num]
          ELSE <<>>) \o PageBlocks(pages, page_num + 1)

\* the lines of text_content; none when no page had text
TextContent(pages) ==
    LET blocks == PageBlocks(pages, 1)
    IN  IF blocks = <<>> THEN <<>> ELSE Append(blocks, BlankLine)

\* the steps of the upload and its background task leave everything else alone
IngestFrame == UNCHANGED <<relayVars, student_bot, conversations, query, chatResp, removal>>

\* the path upload_student_document saves the file under
UploadPath == "uploads/uuid4_upload.pdf"

\* upload_student_document: the file is written to the upload directory and
\* process_pdf of get_rag_system() is scheduled: of the system, or of the
\* mock when its construction failed
Upload ==
    /\ ingest.pc = "idle"
    /\ student_bot
    /\ \E pdf \in Pdfs : \E rag \in {"simplified", "mock"} :
          ingest' = [NoIngest EXCEPT !.pc = IF rag = "mock" THEN "mock" ELSE "create",
                                     !.rag = rag, !.pdf = pdf, !.file_path = UploadPath]
    /\ files' = files \cup {UploadPath}
    /\ UNCHANGED <<documents, document_chunks>>
    /\ IngestFrame

\* MockRAGSystem.process_pdf: an error result and nothing else
IngestMock ==
    /\ ingest.pc = "mock"
    /\ ingest' = [ingest EXCEPT !.pc = "done", !.result = "error"]
    /\ UNCHANGED <<documents, document_chunks, files>>
    /\ IngestFrame

\* the id the sequence behind documents.id gives next: above every id it
\* gave before, the deleted row's too
NextDocumentId ==
    Max({d.id : d \in documents} \cup {removal.document_id, 0}) + 1

\* the row of documents the task created is still there
DocumentExists(doc_id) == \E d \in documents : d.id = doc_id

\* doc_record = DocModel(status=PROCESSING); db.add; db.commit; chunk_count is
\* NULL, written 0, until the document is ready
IngestCreate ==
    /\ ingest.pc = "create"
    /\ documents' = documents \cup {Document(NextDocumentId, "upload.pdf", "processing", 0)}
    /\ ingest' = [ingest EXCEPT !.pc = "extract", !.doc_id = NextDocumentId]
    /\ UNCHANGED <<document_chunks, files>>
    /\ IngestFrame

\* PdfReader and the page loop, the test for no text, the chunker: an
\* unreadable file and a file without text raise
IngestExtract ==
    /\ ingest.pc = "extract"
    /\ LET text_content == TextContent(Pages(ingest.pdf.items))
       IN  ingest' =
             IF ~ingest.pdf.readable \/ text_content = <<>>
             THEN [ingest EXCEPT !.pc = "except"]
             ELSE [ingest EXCEPT !.pc = "commit",
                                 !.chunks = create_text_chunks(text_content)]
    /\ UNCHANGED <<documents, document_chunks, files>>
    /\ IngestFrame

\* the rows of documents with one document's status and chunk_count set
SetStatus(doc_id, status, chunk_count) ==
    {IF d.id = doc_id THEN [d EXCEPT !.status = status, !.chunk_count = chunk_count] ELSE d :
        d \in documents}

\* the chunk rows added to the session, status READY, db.commit(): all of it
\* in one transaction; a statement that fails rolls it back and leaves the
\* session unusable until db.rollback().  The UPDATE of a row that was
\* deleted meanwhile matches nothing and fails the flush.
IngestCommit(ok) ==
    /\ ingest.pc = "commit"
    /\ IF ok /\ DocumentExists(ingest.doc_id)
       THEN /\ document_chunks' = document_chunks \cup
                   {DocumentChunk(ingest.doc_id, i - 1, ingest.chunks[i].text,
                                  ingest.chunks[i].page) : i \in DOMAIN ingest.chunks}
            /\ documents' = SetStatus(ingest.doc_id, "ready", Len(ingest.chunks))
            /\ ingest' = [ingest EXCEPT !.pc = "cleanup"]
       ELSE /\ ingest' = [ingest EXCEPT !.pc = "except", !.session_broken = TRUE]
            /\ UNCHANGED <<documents, document_chunks>>
    /\ UNCHANGED files
    /\ IngestFrame

\* os.remove(file_path) after the commit, inside the try block
IngestCleanup(ok) ==
    /\ ingest.pc = "cleanup"
    /\ IF ok
       THEN /\ files' = files \ {ingest.file_path}
            /\ ingest' = [ingest EXCEPT !.pc = "done", !.result = "success"]
       ELSE /\ ingest' = [ingest EXCEPT !.pc = "except"]
            /\ UNCHANGED files
    /\ UNCHANGED <<documents, document_chunks>>
    /\ IngestFrame

MarkFailedSkipped(doc_id) == documents

\* doc_record.status = FAILED; db.commit()
MarkFailed(doc_id) ==
    {IF d.id = doc_id THEN [d EXCEPT !.status = "failed"] ELSE d : d \in documents}

\* except Exception: the document is marked failed, whatever was committed
\* before; on a session whose commit failed, and for a row that was deleted
\* meanwhile, this commit raises
IngestExcept ==
    /\ ingest.pc = "except"
    /\ IF ingest.session_broken \/ ~DocumentExists(ingest.doc_id)
       THEN /\ ingest' = [ingest EXCEPT !.pc = "raised"]
            /\ UNCHANGED documents
       ELSE /\ documents' = MarkFailed(ingest.doc_id)
            /\ ingest' = [ingest EXCEPT !.pc = "except_cleanup"]
    /\ UNCHANGED <<document_chunks, files>>
    /\ IngestFrame

\* os.remove(file_path) of the except branch, then return
IngestExceptCleanup(ok) ==
    /\ ingest.pc = "except_cleanup"
    /\ IF ok
       THEN /\ files' = files \ {ingest.file_path}
            /\ ingest' = [ingest EXCEPT !.pc = "done", !.result = "error"]
       ELSE /\ ingest' = [ingest EXCEPT !.pc = "raised"]
            /\ UNCHANGED files
    /\ UNCHANGED <<documents, document_chunks>>
    /\ IngestFrame

\* -------------------------------------------------------- delete_document
\* the steps of the admin's deletion leave everything else alone
RemovalFrame ==
    UNCHANGED <<relayVars, student_bot, conversations, files, ingest, query, chatResp>>

\* ids an admin may name
DocumentIds == 1..2

\* doc = db.query(DocModel).filter(DocModel.id == document_id).first(); no row:
\* return False
DeleteLoad ==
    /\ removal.pc = "idle"
    /\ \E document_id \in DocumentIds :
          removal' =
            IF DocumentExists(document_id)
            THEN [removal EXCEPT !.pc = "chunks", !.document_id = document_id]
            ELSE [removal EXCEPT !.pc = "done", !.result = "not found"]
    /\ UNCHANGED <<documents, document_chunks>>
    /\ RemovalFrame

\* db.query(DocumentChunk).filter(document_id == ...).delete(): the rows
\* committed by now are deleted in the transaction of the request
DeleteChunks ==
    /\ removal.pc = "chunks"
    /\ removal' = [removal EXCEPT !.pc = "cascade",
                                  !.deleted_chunks = ChunksOf(removal.document_id)]
    /\ UNCHANGED <<documents, document_chunks>>
    /\ RemovalFrame

\* db.delete(doc): the cascade of Document.chunks loads the collection, the
\* rows committed since the statement before, and marks them for deletion
DeleteCascade ==
    /\ removal.pc = "cascade"
    /\ removal' = [removal EXCEPT !.pc = "commit",
                                  !.deleted_chunks = @ \cup ChunksOf(removal.document_id)]
    /\ UNCHANGED <<documents, document_chunks>>
    /\ RemovalFrame

ForeignKeyIgnored(document_id, deleted_chunks) == TRUE

\* document_chunks.document_id REFERENCES documents(id): the row of documents
\* can go only when every committed chunk of it goes in the same transaction
ForeignKeyHolds(document_id, deleted_chunks) == ChunksOf(document_id) \subseteq deleted_chunks

\* db.commit(): DELETE of the marked chunks, DELETE of the document, COMMIT;
\* a failure is rolled back and answered False
DeleteCommit(ok) ==
    /\ removal.pc = "commit"
    /\ IF /\ ok
          /\ DocumentExists(removal.document_id)
          /\ ForeignKeyHolds(removal.document_id, removal.deleted_chunks)
       THEN /\ documents' = {d \in documents : d.id # removal.document_id}
            /\ document_chunks' = document_chunks \ removal.deleted_chunks
            /\ removal' = [removal EXCEPT !.pc = "done", !.result = "deleted"]
       ELSE /\ removal' = [removal EXCEPT !.pc = "done", !.result = "failed",
                                          !.deleted_chunks = {}]
            /\ UNCHANGED <<documents, document_chunks>>
    /\ RemovalFrame

\* ------------------------------------------------- chat_with_student_bot
\* the steps of one request to /chat/student leave everything else alone
QueryFrame ==
    UNCHANGED <<relayVars, student_bot, documents, document_chunks, files, ingest, removal>>

\* session ids a request carries: none, or the widget's
RequestSids == {"none", "s1"}

\* the request arrives; get_rag_system() hands out the system, or the mock
\* when its construction failed; session_id = request.session_id or uuid4()
ChatBegin ==
    /\ query.pc = "idle"
    /\ chatResp = NoChatResp
    /\ \E question \in Questions : \E sid \in RequestSids : \E rag \in {"simplified", "mock"} :
          LET session_id == IF sid = "none" THEN "uuid4" ELSE sid
          IN  query' =
                IF rag = "mock"
                THEN [NoQuery EXCEPT !.pc = "respond", !.rag = rag, !.message = question,
                                     !.request_sid = sid, !.session_id = session_id,
                                     !.result = Result(UnavailableText, <<>>, 0, session_id,
                                                       FALSE)]
                ELSE [NoQuery EXCEPT !.pc = "classify", !.rag = rag, !.message = question,
                                     !.request_sid = sid, !.session_id = session_id]
    /\ UNCHANGED <<conversations, chatResp>>
    /\ QueryFrame

\* the conversational messages are answered before any search
QueryClassify ==
    /\ query.pc = "classify"
    /\ LET category == Classify(query.message)
       IN  query' =
             IF category = "academic"
             THEN [query EXCEPT !.pc = "search"]
             ELSE [query EXCEPT !.pc = "respond",
                                !.result = Result(SmallTalkAnswer(category), <<>>, SmallTalkMs,
                                                  query.session_id, FALSE)]
    /\ UNCHANGED <<conversations, chatResp>>
    /\ QueryFrame

\* relevant_chunks = self._search_documents(question): the store returns the
\* rows in an order of its choosing; an exception inside, or no student bot,
\* gives the empty list
QuerySearch ==
    /\ query.pc = "search"
    /\ \E failed \in BOOLEAN : \E rows \in Perms(ReadyChunks) :
          LET relevant_chunks ==
                  IF failed \/ ~student_bot THEN <<>>
                  ELSE search_documents(query.message, rows)
          IN  query' =
                IF relevant_chunks = <<>>
                THEN [query EXCEPT !.pc = "respond", !.retriever_calls = @ + 1,
                                   !.search_failed = failed,
                                   !.result = Result(StillLearningText, <<>>, 0,
                                                     query.session_id, FALSE)]
                ELSE [query EXCEPT !.pc = "generate", !.retriever_calls = @ + 1,
                                   !.relevant_chunks = relevant_chunks]
    /\ UNCHANGED <<conversations, chatResp>>
    /\ QueryFrame

\* the result of the except branch of query_student_bot
TroubleResult(sid) == Result(TroubleText, <<>>, 0, sid, TRUE)

\* response = self.model.generate_content(prompt), cleaning, sources, timing
QueryGenerate(outcome, ms) ==
    /\ query.pc = "generate"
    /\ query' =
          IF outcome.raises
          THEN [query EXCEPT !.pc = "respond", !.llm_calls = @ + 1, !.llm_raised = TRUE,
                             !.result = TroubleResult(query.session_id)]
          ELSE [query EXCEPT !.pc = "log", !.llm_calls = @ + 1,
                             !.answer = clean_response(outcome.text),
                             !.sources = Sources(query.relevant_chunks),
                             !.response_time = ms]
    /\ UNCHANGED <<conversations, chatResp>>
    /\ QueryFrame

LogFailurePropagates(q, ok) ==
    IF ok THEN Result(q.answer, q.sources, q.response_time, q.session_id, FALSE)
    ELSE TroubleResult(q.session_id)

\* the result built after _log_conversation returned: the call swallows its
\* own exceptions
LoggedResult(q, ok) == Result(q.answer, q.sources, q.response_time, q.session_id, FALSE)

\* await self._log_conversation(...): insert and commit, or an exception that
\* is logged and dropped
QueryLog(ok) ==
    /\ query.pc = "log"
    /\ conversations' =
          IF analytics_enabled /\ student_bot /\ ok
          THEN conversations \cup
                   {Conversation(query.session_id, query.message, query.answer,
                                 query.response_time, query.sources)}
          ELSE conversations
    /\ query' = [query EXCEPT !.pc = "respond", !.log_failed = ~ok,
                              !.result = LoggedResult(query, ok)]
    /\ UNCHANGED chatResp
    /\ QueryFrame

ChatRespondShowsSources(raised) ==
    /\ query.pc = "respond"
    /\ chatResp' =
          IF raised
          THEN ChatResponse(SorryText, <<>>, 0, query.request_sid)
          ELSE ChatResponse(clean_bot_response(query.result.answer), query.result.sources,
                            query.result.response_time_ms, query.session_id)
    /\ query' = [query EXCEPT !.pc = "done", !.raised = raised]
    /\ UNCHANGED conversations
    /\ QueryFrame

\* the endpoint cleans the answer and hides sources and timing; its own
\* except branch answers in the same shape with the request's session id
ChatRespond(raised) ==
    /\ query.pc = "respond"
    /\ chatResp' =
          IF raised
          THEN ChatResponse(SorryText, <<>>, 0, query.request_sid)
          ELSE ChatResponse(clean_bot_response(query.result.answer), <<>>, 0, query.session_id)
    /\ query' = [query EXCEPT !.pc = "done", !.raised = raised]
    /\ UNCHANGED conversations
    /\ QueryFrame

\* the knowledge bases a question may meet: none, an empty one, one ready
\* document of two chunks, and that document next to a failed one
KnowledgeBases ==
    {[student_bot |-> FALSE, documents |-> {}, document_chunks |-> {}],
     [student_bot |-> TRUE, documents |-> {}, document_chunks |-> {}],
     [student_bot |-> TRUE,
      documents |-> {Document(1, "handbook.pdf", "ready", 2)},
      document_chunks |-> {DocumentChunk(1, 0, <<TextLine(<<"enroll">>)>>, 1),
                           DocumentChunk(1, 1, <<TextLine(<<"which", "are">>)>>, 2)}],
     [student_bot |-> TRUE,
      documents |-> {Document(1, "handbook.pdf", "ready", 2),
                     Document(2, "memo.pdf", "failed", 1)},
      document_chunks |-> {DocumentChunk(1, 0, <<TextLine(<<"enroll">>)>>, 1),
                           DocumentChunk(1, 1, <<TextLine(<<"which", "are">>)>>, 2),
                           DocumentChunk(2, 0, <<TextLine(<<"you">>)>>, 1)}]}

InitAnswer ==
    /\ RelayInit
    /\ \E kb \in KnowledgeBases :
          /\ student_bot = kb.student_bot
          /\ documents = kb.documents
          /\ document_chunks = kb.document_chunks
    /\ conversations = {}
    /\ files = {}
    /\ ingest = NoIngest
    /\ query = NoQuery
    /\ chatResp = NoChatResp
    /\ removal = NoRemoval

NextAnswer ==
    \/ ChatBegin
    \/ QueryClassify
    \/ QuerySearch
    \/ \E outcome \in LlmOutcomes : \E ms \in Elapsed : QueryGenerate(outcome, ms)
    \/ \E ok \in BOOLEAN : QueryLog(ok)
    \/ \E raised \in BOOLEAN : ChatRespond(raised)

SpecAnswer == InitAnswer /\ [][NextAnswer]_vars

\* ------------------------------------------------------------- ingestion
\* an upload meets a knowledge base that earlier uploads filled without a
\* failure
InitIngest ==
    /\ RelayInit
    /\ \E kb \in KnowledgeBases :
          /\ \A d \in kb.documents : d.status = "ready"
          /\ student_bot = kb.student_bot
          /\ documents = kb.documents
          /\ document_chunks = kb.document_chunks
    /\ conversations = {}
    /\ files = {}
    /\ ingest = NoIngest
    /\ query = NoQuery
    /\ chatResp = NoChatResp
    /\ removal = NoRemoval

NextIngest ==
    \/ Upload
    \/ IngestMock
    \/ IngestCreate
    \/ IngestExtract
    \/ \E ok \in BOOLEAN : IngestCommit(ok)
    \/ \E ok \in BOOLEAN : IngestCleanup(ok)
    \/ IngestExcept
    \/ \E ok \in BOOLEAN : IngestExceptCleanup(ok)

SpecIngest == InitIngest /\ [][NextIngest]_vars

\* an upload and its background task next to an admin's deletion
NextDelete ==
    \/ NextIngest
    \/ DeleteLoad
    \/ DeleteChunks
    \/ DeleteCascade
    \/ \E ok \in BOOLEAN : DeleteCommit(ok)

SpecDelete == InitIngest /\ [][NextDelete]_vars

\* ------------------------------------------- a search next to an ingestion
\* the questions that pass the conversational tests and reach the search
AcademicQuestions == {q \in Questions : Classify(q) = "academic"}

\* a request that has reached its search, as ChatBegin and QueryClassify
\* leave it
Searching(question, sid) ==
    [NoQuery EXCEPT !.pc = "search", !.rag = "simplified", !.message = question,
                    !.request_sid = sid,
                    !.session_id = IF sid = "none" THEN "uuid4" ELSE sid]

\* a question of at most one word is about to be searched while an upload
\* arrives
InitConcurrent ==
    /\ RelayInit
    /\ \E kb \in KnowledgeBases :
          /\ \A d \in kb.documents : d.status = "ready"
          /\ student_bot = kb.student_bot
          /\ documents = kb.documents
          /\ document_chunks = kb.document_chunks
    /\ conversations = {}
    /\ files = {}
    /\ ingest = NoIngest
    /\ \E question \in AcademicQuestions : \E sid \in RequestSids :
          /\ Len(question) <= 1
          /\ query = Searching(question, sid)
    /\ chatResp = NoChatResp
    /\ removal = NoRemoval

NextConcurrent == NextIngest \/ QuerySearch

SpecConcurrent == InitConcurrent /\ [][NextConcurrent]_vars

\* ------------------------------------------------- a search in a library
\* a knowledge base with more matching chunks than the search returns: one
\* ready document of six chunks, of one and of two words
Library ==
    [student_bot |-> TRUE,
     documents |-> {Document(1, "handbook.pdf", "ready", 6)},
     document_chunks |-> {DocumentChunk(1, 0, <<TextLine(<<"enroll">>)>>, 1),
                          DocumentChunk(1, 1, <<TextLine(<<"are">>)>>, 1),
                          DocumentChunk(1, 2, <<TextLine(<<"you">>)>>, 2),
                          DocumentChunk(1, 3, <<TextLine(<<"enroll", "are">>)>>, 2),
                          DocumentChunk(1, 4, <<TextLine(<<"are", "you">>)>>, 3),
                          DocumentChunk(1, 5, <<TextLine(<<"enroll", "you">>)>>, 3)}]

\* an academic question of the widget's session is about to be searched in
\* the library
InitSearch ==
    /\ RelayInit
    /\ student_bot = Library.student_bot
    /\ documents = Library.documents
    /\ document_chunks = Library.document_chunks
    /\ conversations = {}
    /\ files = {}
    /\ ingest = NoIngest
    /\ \E question \in AcademicQuestions : query = Searching(question, "s1")
    /\ chatResp = NoChatResp
    /\ removal = NoRemoval

NextSearch == QuerySearch

SpecSearch == InitSearch /\ [][NextSearch]_vars

\* ----------------------------------------------------------------- claims
\* the steps of the handlers, read off two consecutive states
Returned(op) ==
    \/ \E p \in Procs : req[p].op = op /\ pc[p] # "idle" /\ pc'[p] = "idle"
    \/ pc' = pc /\ clock' = clock + 1 /\ lastResp'.op = op

PollStep ==
    \/ Returned("poll")
    \/ \E p \in Procs : pc[p] = "idle" /\ pc'[p] = "poll_query"

ChatOf(s) == {c \in chats : c.session_id = s}

MessagesOf(s) == {m \in messages : \E c \in ChatOf(s) : c.id = m.chat_id}

IsClosed(rows, id) == \E c \in rows : c.id = id /\ c.status = "closed"

\* C1: closed is terminal: a chat whose status is closed is closed in every
\* later state, whatever postUserMessage, postAdminMessage, pollNewMessages
\* and closeSession calls follow.
ClosedIsTerminal ==
    [][\A id \in ChatIds : IsClosed(chats, id) => IsClosed(chats', id)]_vars

\* C2: in every reachable state there is at most one DirectChat per session
\* id, also when first posts (or an admin create) for the same unknown
\* session interleave between their lookup and their insert.
OneChatPerSession == \A s \in Sessions : Cardinality(ChatOf(s)) <= 1

\* a first post lost the race for its session: its INSERT met the other's row
OneChatPerSessionWitness ==
    /\ lastResp.op = "user"
    /\ lastResp.status = 500
    /\ Cardinality(ChatOf(lastResp.sid)) = 1

\* C3: postUserMessage tolerates the first-message race: every call answers
\* 200 and, once no post for a session is in flight, the session's chat holds
\* one user message per call.
ConcurrentPostsSucceed ==
    /\ lastResp.op = "user" => lastResp.status = 200
    /\ \A s \in Sessions :
          (\A p \in Procs : ~(req[p].op = "user" /\ req[p].sid = s))
              => Cardinality({m \in MessagesOf(s) : m.sender_type = "user"}) = posted[s]

\* C4: no message loss under polling: a client that always sends the largest
\* id it has been handed has been handed every committed message of its chat
\* up to that id, so every committed message it lacks is above its watermark
\* and the next poll returns it.
NoMessageLoss ==
    \A s \in Sessions : \A m \in MessagesOf(s) : m.id <= wm[s] => m.id \in recv[s]

\* the client's watermark has passed an id that a transaction still in
\* flight has drawn and not yet committed
NoMessageLossWitness ==
    \E s \in Sessions : \E p \in Procs :
        /\ pc[p] = "commit"
        /\ req[p].msgid > 0
        /\ req[p].msgid < wm[s]
        /\ recv[s] # {}

StrictlyIncreasingIds(sq) == \A i, j \in 1..Len(sq) : i < j => sq[i].id < sq[j].id

\* C5: the list a poll returns is in strictly increasing identifier order,
\* for every chat, every last_seen and every reachable set of messages.
PollInIdOrder ==
    \A c \in chats : \A w \in SeenVals : StrictlyIncreasingIds(NewMessages(c.id, w))

\* C6: pollNewMessages(s, last_seen) returns exactly the messages of the chat
\* of session s whose id is greater than last_seen, each once: on every
\* reachable store for every s and last_seen, and in every response sent.
PollExact(s, w, out) ==
    /\ Ids(out) = {m.id : m \in {x \in MessagesOf(s) : x.id > w}}
    /\ Len(out) = Cardinality(Ids(out))
    /\ \A i \in 1..Len(out) :
          \E m \in MessagesOf(s) :
              /\ m.id = out[i].id
              /\ m.sender_type = out[i].sender_type
              /\ m.message = out[i].message

PollReturnsExactly ==
    /\ [](\A s \in Sessions : \A w \in SeenVals : PollExact(s, w, PollResult(s, w)))
    /\ [][Returned("poll") =>
             PollExact(lastResp.sid, lastResp.last_seen, lastResp.new_messages)']_vars

\* a poll returned its chat's message and left out the other chat's
PollReturnsExactlyWitness ==
    /\ lastResp.op = "poll"
    /\ lastResp.new_messages # <<>>
    /\ \E m \in messages : m \notin MessagesOf(lastResp.sid)

\* C7: n postUserMessage calls in sequence for one session leave exactly one
\* chat, created in waiting, holding exactly n user messages, and a poll with
\* last_seen = 0 returns all of them.
SequentialPosts ==
    /\ [](\A s \in Sessions :
            (pc[1] = "idle" /\ posted[s] > 0) =>
                LET users == {m \in MessagesOf(s) : m.sender_type = "user"}
                IN  /\ Cardinality(ChatOf(s)) = 1
                    /\ Cardinality(users) = posted[s]
                    /\ {m.id : m \in users} \subseteq Ids(PollResult(s, 0)))
    /\ [][\A c \in chats' :
             (\A d \in chats : d.id # c.id) => c.status = "waiting"]_vars

SequentialPostsWitness ==
    \E s \in Sessions :
        /\ posted[s] = 2
        /\ lastResp.op = "poll"
        /\ lastResp.sid = s
        /\ lastResp.last_seen = 0
        /\ Len(lastResp.new_messages) = 2

\* C8: pollNewMessages is read-only: no step of a poll changes a chat or a
\* message (none is created, none changes status, none is closed), and a poll
\* for a session without a chat answers 200 with an empty list.
PollIsReadOnly ==
    [][PollStep =>
          /\ chats' = chats
          /\ messages' = messages
          /\ nextChatId' = nextChatId
          /\ nextMsgId' = nextMsgId
          /\ (lastResp'.op = "poll" /\ clock' # clock /\ ChatOf(lastResp'.sid) = {})
                => (lastResp'.status = 200 /\ lastResp'.new_messages = <<>>)]_vars

\* both cases: a poll of a known session handed its client a message and the
\* chat is still waiting, then a session without a chat was polled
PollIsReadOnlyWitness ==
    /\ lastResp.op = "poll"
    /\ lastResp.status = 200
    /\ ChatOf(lastResp.sid) = {}
    /\ \E s \in Sessions : wm[s] > 0 /\ \E c \in ChatOf(s) : c.status = "waiting"

\* C9: postAdminMessage on a chat id that does not exist answers 404 and
\* changes nothing: no message is appended or pending, no chat is created or
\* modified.
AdminBeginOn(id) ==
    \/ pc' = pc /\ clock' = clock + 1 /\ lastResp'.op = "admin" /\ lastResp'.cid = id
    \/ \E p \in Procs : pc[p] = "idle" /\ pc'[p] # "idle"
                        /\ req'[p].op = "admin" /\ req'[p].cid = id

AdminNotFound ==
    [][\A id \in ChatIds :
          (AdminBeginOn(id) /\ \A c \in chats : c.id # id) =>
              /\ lastResp'.op = "admin"
              /\ lastResp'.status = 404
              /\ pc' = pc
              /\ req' = req
              /\ chats' = chats
              /\ messages' = messages
              /\ nextMsgId' = nextMsgId]_vars

\* an admin named a chat id that does not exist while another chat does
AdminNotFoundWitness ==
    /\ lastResp.op = "admin"
    /\ lastResp.status = 404
    /\ \A c \in chats : c.id # lastResp.cid
    /\ chats # {}

HasAdminMessage(c) == \E m \in messages : m.chat_id = c.id /\ m.sender_type = "admin"

\* C10: a chat that is not closed is active exactly when it holds an admin
\* message: waiting while no admin has replied, active from the first
\* postAdminMessage on.
ActiveIffAdminReplied ==
    \A c \in chats : c.status # "closed" => (c.status = "active" <=> HasAdminMessage(c))

\* an admin replied to a chat that a user had opened
ActiveIffAdminRepliedWitness ==
    \E c \in chats :
        /\ c.status = "active"
        /\ HasAdminMessage(c)
        /\ \E m \in messages : m.chat_id = c.id /\ m.sender_type = "user"

\* C11: closeSession(s, reason) on an existing chat leaves it closed, appends
\* exactly one system message, which records the supplied reason, and updates
\* last_activity; on a session without a chat it answers without an error and
\* creates nothing.
Records(text, reason) == \E i \in DOMAIN text : text[i] = reason

CloseCommits(p) == pc[p] = "commit" /\ req[p].op = "close" /\ pc'[p] = "idle"

CloseOfUnknown ==
    pc' = pc /\ clock' = clock + 1 /\ lastResp'.op = "close" /\ ChatOf(lastResp'.sid) = {}

CloseSessionContract ==
    /\ [][\A p \in Procs : CloseCommits(p) =>
             /\ IsClosed(chats', req[p].cid)
             /\ \E m \in messages' \ messages :
                   /\ messages' = messages \cup {m}
                   /\ m.chat_id = req[p].cid
                   /\ m.sender_type = "system"
                   /\ Records(m.message, req[p].reason)
             /\ \E c \in chats' : c.id = req[p].cid /\ c.last_activity = req[p].la
             /\ lastResp'.status = 200]_vars
    /\ [][CloseOfUnknown =>
             /\ lastResp'.status = 200
             /\ chats' = chats
             /\ messages' = messages
             /\ nextChatId' = nextChatId
             /\ nextMsgId' = nextMsgId
             /\ pc' = pc]_vars

\* C12: appending a user message never changes the status of an existing
\* chat: postUserMessage on a waiting, active or closed chat appends the
\* message and sets last_activity, and leaves the status and every other chat
\* as they were.
UserCommitsOnExisting(p) ==
    pc[p] = "commit" /\ req[p].op = "user" /\ ~req[p].created /\ pc'[p] = "idle"

UserPostKeepsStatus ==
    [][\A p \in Procs : UserCommitsOnExisting(p) =>
          /\ \E c \in chats : \E d \in chats' :
                /\ c.id = req[p].cid
                /\ d.id = c.id
                /\ d.status = c.status
                /\ d.last_activity = req[p].la
                /\ chats' \ {d} = chats \ {c}
          /\ \E m \in messages' \ messages :
                /\ messages' = messages \cup {m}
                /\ m.chat_id = req[p].cid
                /\ m.sender_type = "user"
          /\ lastResp'.status = 200]_vars

\* a user posted to a chat after it was closed and the chat is still closed,
\* its last_activity that of the post
UserPostKeepsStatusWitness ==
    \E c \in chats : \E m, n \in messages :
        /\ c.status = "closed"
        /\ m.chat_id = c.id /\ m.sender_type = "system"
        /\ n.chat_id = c.id /\ n.sender_type = "user"
        /\ n.id > m.id
        /\ c.last_activity = n.sent_at

\* the orchestrator has returned its result for the question in query.message
Answered == query.rag = "simplified" /\ query.pc \in {"respond", "done"}

SmallTalkOrder == <<"greeting", "thanks", "farewell", "identity">>

PhraseSet(category) ==
    CASE category = "greeting" -> greetings
      [] category = "thanks" -> thanks_words
      [] category = "farewell" -> goodbye_words
      [] category = "identity" -> status_questions

CannedText(category) ==
    CASE category = "greeting" -> GreetingText
      [] category = "thanks" -> ThanksText
      [] category = "farewell" -> FarewellText
      [] category = "identity" -> IdentityText

MatchesCategory(category, question) == AnyIn(PhraseSet(category), Lower(question))

IsSmallTalk(question) == \E i \in DOMAIN SmallTalkOrder : MatchesCategory(SmallTalkOrder[i], question)

FirstMatch(question) ==
    SmallTalkOrder[CHOOSE i \in DOMAIN SmallTalkOrder :
                      /\ MatchesCategory(SmallTalkOrder[i], question)
                      /\ \A j \in 1..(i - 1) : ~MatchesCategory(SmallTalkOrder[j], question)]

\* C13: for every question that matches a small-talk phrase set the result is
\* the fixed text of the first matching category in the order greeting,
\* thanks, farewell, identity, with empty sources, and neither the retriever
\* nor the language model was called for that request.
SmallTalkFastPath ==
    (Answered /\ IsSmallTalk(query.message)) =>
        /\ query.result.answer = CannedText(FirstMatch(query.message))
        /\ query.result.sources = <<>>
        /\ query.retriever_calls = 0
        /\ query.llm_calls = 0

\* a question that both thanks and says goodbye was answered as thanks
SmallTalkFastPathWitness ==
    /\ Answered
    /\ ~MatchesCategory("greeting", query.message)
    /\ MatchesCategory("thanks", query.message)
    /\ MatchesCategory("farewell", query.message)
    /\ query.result.answer = ThanksText

\* no chunk of a ready document contains a term of the question
NoChunkScores(question) == \A c \in ReadyChunks : Score(Lower(question), c) = 0

\* C14: for every question that is not small talk and for which the
\* retriever returns no chunk (every chunk scores 0, or the retrieval
\* failed), the result is the fixed "still learning" text with empty sources
\* and latency 0, and the language model was not called.
NoChunksStillLearning ==
    (/\ Answered
     /\ ~IsSmallTalk(query.message)
     /\ query.search_failed \/ NoChunkScores(query.message)) =>
        /\ query.result.answer = StillLearningText
        /\ query.result.sources = <<>>
        /\ query.result.response_time_ms = 0
        /\ query.result.error = FALSE
        /\ query.retriever_calls = 1
        /\ query.llm_calls = 0

\* the search ran on a knowledge base with ready chunks and none of them
\* contained a term of the question
NoChunksStillLearningWitness ==
    /\ Answered
    /\ ~IsSmallTalk(query.message)
    /\ query.message # <<>>
    /\ ~query.search_failed
    /\ ReadyChunks # {}
    /\ NoChunkScores(query.message)
    /\ query.result.answer = StillLearningText

\* C15: when the call of the language model raises, the result is the same
\* fixed "still learning" text that an empty chunk list gives, with empty
\* sources and latency 0, the model was called once, and the caller of the
\* endpoint gets an ordinary response.
LlmFailureStillLearning ==
    (Answered /\ query.llm_raised) =>
        /\ query.result.answer = StillLearningText
        /\ query.result.sources = <<>>
        /\ query.result.response_time_ms = 0
        /\ query.llm_calls = 1
        /\ query.pc = "done" => chatResp.status = 200

\* the request went through retrieval and generation
Grounded == query.llm_calls = 1 /\ ~query.llm_raised /\ query.pc \in {"respond", "done"}

\* one source per retrieved chunk, in the order of retrieval
SourcesOfChunks(sources, relevant_chunks) ==
    /\ Len(sources) = Len(relevant_chunks)
    /\ \A i \in DOMAIN sources :
          /\ sources[i].page = relevant_chunks[i].page
          /\ sources[i].filename = relevant_chunks[i].filename

\* C16: whatever the orchestrator did (small talk, grounded answer, fixed
\* fallback, or an exception), the response of the public endpoint is an
\* ordinary 200 answer with an empty sources list and response_time_ms 0,
\* while the Conversation row of a grounded answer holds the sources computed
\* from the retrieved chunks.
EndpointHidesSources ==
    /\ (query.pc = "done" \/ chatResp # NoChatResp) =>
          /\ chatResp.status = 200
          /\ chatResp.sources = <<>>
          /\ chatResp.response_time_ms = 0
          /\ chatResp.answer # <<>>
    /\ \A c \in conversations :
          /\ Grounded
          /\ c.sources_used = Str(query.sources)
          /\ SourcesOfChunks(query.sources, query.relevant_chunks)
          /\ query.sources # <<>>
    /\ (Grounded /\ ~query.log_failed /\ analytics_enabled /\ student_bot) =>
          conversations # {}

\* a grounded answer was sent without sources after its two sources had been
\* written to the log
EndpointHidesSourcesWitness ==
    /\ query.pc = "done"
    /\ ~query.raised
    /\ chatResp.sources = <<>>
    /\ \E c \in conversations : Len(c.sources_used.repr) = 2
    /\ query.result.sources # <<>>
    /\ query.result.response_time_ms > 0

\* C17: a failure while writing the Conversation row never affects the
\* answer: the result is the answer, the sources and the latency computed
\* before the write, exactly as when the write succeeds.
LogFailureIsSwallowed ==
    Grounded =>
        /\ query.result.answer = query.answer
        /\ query.result.sources = query.sources
        /\ query.result.response_time_ms = query.response_time
        /\ query.result.error = FALSE
        /\ query.log_failed => conversations = {}

\* the write failed and the grounded answer, with its two sources, was sent
LogFailureIsSwallowedWitness ==
    /\ Grounded
    /\ query.log_failed
    /\ query.pc = "done"
    /\ ~query.raised
    /\ Len(query.result.sources) = 2
    /\ chatResp.answer = clean_bot_response(query.answer)

\* the place of a status on the way uploading, processing, then ready or failed
StatusRank(status) ==
    CASE status = "uploading" -> 0
      [] status = "processing" -> 1
      [] status \in {"ready", "failed"} -> 2

\* C18: the status of a Document only moves forward along uploading,
\* processing, then ready or failed: in every execution of process_pdf, also
\* one in which a step after the final commit fails, a Document that is ready
\* or failed keeps that status and no Document moves backwards.
StatusIsMonotonic ==
    [][\A d \in documents : \E e \in documents' :
          /\ e.id = d.id
          /\ StatusRank(d.status) <= StatusRank(e.status)
          /\ d.status \in {"ready", "failed"} => e.status = d.status]_vars

\* the rows the chunks of the running task make
ChunkRows ==
    {DocumentChunk(ingest.doc_id, i - 1, ingest.chunks[i].text, ingest.chunks[i].page) :
        i \in DOMAIN ingest.chunks}

\* C19: ingestion has no partial success: in every reachable state a ready
\* Document has all the chunks the chunker returned for it persisted, and a
\* failed Document has no persisted chunk.
NoPartialSuccess ==
    \A d \in documents :
        /\ d.status = "ready" =>
              /\ Cardinality(ChunksOf(d.id)) = d.chunk_count
              /\ d.id = ingest.doc_id => ChunksOf(d.id) = ChunkRows
        /\ d.status = "failed" => ChunksOf(d.id) = {}

\* C20: in every reachable state a ready Document has a chunk count greater
\* than 0, whatever page text the PDF reader returned, also text whose only
\* non-blank lines look like page markers.
ReadyHasChunks ==
    \A d \in documents :
        d.status = "ready" => (d.chunk_count > 0 /\ ChunksOf(d.id) # {})

\* the background task is over: process_pdf returned or raised
IngestFinished == ingest.pc \in {"done", "raised"}

\* C21: the temporary uploaded file is always removed: in every state in
\* which the background ingestion of an accepted upload has finished, on the
\* success path and on every failure path (extraction failure, storage
\* failure, the fallback system), the uploaded file no longer exists.
TempFileRemoved == IngestFinished => ingest.file_path \notin files

\* the search of the request runs in this step
SearchRuns == query.pc = "search" /\ query'.pc # "search"

\* what the search returned of one document, as rows of document_chunks
ReturnedOf(result, doc_id) ==
    {c \in ChunksOf(doc_id) :
        \E i \in DOMAIN result : /\ result[i].document_id = doc_id
                                 /\ result[i].text = c.text_content
                                 /\ result[i].page = c.page_number}

\* C22: a search that runs next to an ingestion returns only chunks of
\* documents that are ready at the time of the query, and of the document the
\* ingestion works on it sees no chunk or all of them: below the limit it
\* returns none of its chunks or every one the question matches.
SearchSeesWholeDocuments ==
    [][SearchRuns =>
          LET result == query'.relevant_chunks
              matching == {c \in ChunkRows : Score(Lower(query.message), c) > 0}
          IN  /\ \A i \in DOMAIN result :
                    \E d \in documents : d.id = result[i].document_id /\ d.status = "ready"
              /\ \A i \in DOMAIN result :
                    result[i].document_id = ingest.doc_id /\ Len(result) < limit
                        => ReturnedOf(result, ingest.doc_id) = matching]_vars

\* the search ran between the commit of the ingestion and its clean-up: it
\* returned both chunks of the new document next to the older document's
SearchSeesWholeDocumentsWitness ==
    /\ query.retriever_calls = 1
    /\ query.message = <<"enroll">>
    /\ ingest.pc = "cleanup"
    /\ Len(ingest.chunks) = 2
    /\ Cardinality(ReturnedOf(query.relevant_chunks, ingest.doc_id)) = 2
    /\ \E i \in DOMAIN query.relevant_chunks :
          query.relevant_chunks[i].document_id # ingest.doc_id

\* the place of a returned chunk in the rows the store handed over
PlaceIn(rows, x) ==
    CHOOSE k \in DOMAIN rows :
        /\ rows[k].document_id = x.document_id
        /\ rows[k].text_content = x.text
        /\ rows[k].page_number = x.page

DistinctTerms(question) == Range(Lower(question))

\* C24: the score of a chunk is the number of distinct terms of the question
\* that occur in its lower-cased text, each term counted once, so that a
\* question that repeats a term scores every chunk as the question without
\* the repetition does.
ScoreCountsDistinctTerms ==
    query.pc = "search" =>
        \A c \in ReadyChunks :
            Score(Lower(query.message), c) =
                Cardinality({t \in DistinctTerms(query.message) :
                                \E w \in Range(Lower(TextWords(c.text_content))) : Within(t, w)})

\* C25: the cleaning of an answer is idempotent: cleaning the cleaned answer
\* of a generation again changes nothing, also when cutting out one reference
\* has left the words around it forming a new one.
CleanIsIdempotent == Grounded => clean_response(query.answer) = query.answer

\* the state of the chunker after the first k lines of a text
ChunkerAfter(text_content, k) == ChunkLoop(ChunkerStart, SubSeq(text_content, 1, k))

\* C26: for every text process_pdf hands to the chunker, every chunk has a
\* page number of at least 1 and the page numbers do not decrease along the
\* chunks; a page-marker line whose number cannot be read advances the page
\* by exactly one.
ChunkPagesAscend ==
    ingest.pc \in {"commit", "cleanup", "done"} =>
        /\ \A i \in DOMAIN ingest.chunks :
              /\ ingest.chunks[i].page >= 1
              /\ i > 1 => ingest.chunks[i - 1].page <= ingest.chunks[i].page
        /\ LET text_content == TextContent(Pages(ingest.pdf.items))
           IN  \A k \in DOMAIN text_content :
                   text_content[k] = BadMarkerLine =>
                       ChunkerAfter(text_content, k).current_page =
                           ChunkerAfter(text_content, k - 1).current_page + 1

\* the chunker has run on the text of the upload
Chunked == ingest.rag = "simplified" /\ ingest.pc \in {"commit", "cleanup", "done"}

\* C27: the chunker returns no chunk only for a text that is empty or white
\* space: every text with a line that is not blank gives at least one chunk,
\* and process_pdf treats a result of no chunks as a failure, the Document
\* does not become ready.
ChunkerYieldsChunks ==
    /\ Chunked /\ HasText(TextContent(Pages(ingest.pdf.items))) => Len(ingest.chunks) > 0
    /\ \A d \in documents :
          Chunked /\ d.id = ingest.doc_id /\ ingest.chunks = <<>> => d.status # "ready"

\* process_pdf of the RAG system has returned a result
IngestReturned ==
    ingest.rag = "simplified" /\ ingest.pc = "done" /\ ingest.result \in {"success", "error"}

\* C29: every run of process_pdf that returns, with a success or an error
\* result, leaves its Document ready or failed: in every state from the
\* return on the Document is neither processing nor uploading.
ReturnedIngestIsSettled ==
    IngestReturned =>
        \E d \in documents : d.id = ingest.doc_id /\ d.status \in {"ready", "failed"}

\* a run on a file without text has returned its error and left the Document
\* failed
ReturnedIngestIsSettledWitness ==
    /\ IngestReturned
    /\ ingest.result = "error"
    /\ ingest.chunks = <<>>
    /\ \E d \in documents : d.id = ingest.doc_id /\ d.status = "failed"

\* delete_direct_chat answers a request for this id in this step
DeleteChatOn(id) ==
    /\ clock' = clock + 1
    /\ pc' = pc
    /\ lastResp'.op = "delete"
    /\ lastResp'.cid = id

\* C30: deleting a direct chat by an id that does not exist answers 404 and
\* leaves every chat and message unchanged; deleting an existing chat answers
\* 200 and removes that chat together with all of its messages and nothing of
\* any other chat.
DeleteChatContract ==
    [][\A id \in ChatIds :
          DeleteChatOn(id) =>
              IF \A c \in chats : c.id # id
              THEN /\ lastResp'.status = 404
                   /\ chats' = chats
                   /\ messages' = messages
              ELSE /\ lastResp'.status = 200
                   /\ chats' = {c \in chats : c.id # id}
                   /\ messages' = {m \in messages : m.chat_id # id}]_vars

\* C28: deleting a document takes its chunks with it under every
\* interleaving: from the state in which an admin's deletion of a document has
\* succeeded on, no row of document_chunks refers to that document, also when
\* the deletion ran while the ingestion of that document was under way.
DeleteCascadesToChunks ==
    removal.result = "deleted" => ChunksOf(removal.document_id) = {}

\* the document was deleted while its ingestion held chunks to store: the
\* task's commit failed and nothing of the document is left
DeleteCascadesToChunksWitness ==
    /\ removal.result = "deleted"
    /\ removal.document_id = ingest.doc_id
    /\ ingest.chunks # <<>>
    /\ ingest.session_broken
    /\ ingest.pc = "raised"
    /\ ~DocumentExists(ingest.doc_id)

====
